---- MODULE Spec2Model ----
(***************************************************************************)
(* Model of qiskit.algorithms.phase_estimators.PhaseEstimation:            *)
(* the estimator object, the circuits it builds or receives, the public    *)
(* operations construct_circuit and estimate, and the post-processing of   *)
(* an execution result into a phase distribution (_compute_phases).        *)
(***************************************************************************)
EXTENDS Integers, Sequences, FiniteSets, TLC

VARIABLES est, heap, call, sample

vars == <<est, heap, call, sample>>

(***************************************************************************)
(* Bounds of the model.                                                    *)
(***************************************************************************)
MaxEvalQubits == 2
MaxUnitaryQubits == 2
MaxMeasLayers == 2
MaxKeys == 2
MaxCount == 2

(***************************************************************************)
(* Python values.  An Optional value is the empty sequence (None) or a     *)
(* one-element sequence; range(a, b) is the sequence a, a+1, ..., b-1.     *)
(***************************************************************************)
None == <<>>

Some(x) == <<x>>

Range(a, b) == [i \in 1..(b - a) |-> a + i - 1]

RECURSIVE Pow2(_)
Pow2(n) == IF n <= 0 THEN 1 ELSE 2 * Pow2(n - 1)

(***************************************************************************)
(* Circuits.  A QuantumCircuit is its qubit count, its classical registers *)
(* in the order they were added and its instruction list.                  *)
(***************************************************************************)
NoCircuit == [num_qubits |-> 0, cregs |-> <<>>, data |-> <<>>]

Instruction(name, qubits, clbits) == [name |-> name, qubits |-> qubits, clbits |-> clbits]

OpaqueCircuit(name, k) ==
    [num_qubits |-> k, cregs |-> <<>>,
     data |-> <<Instruction(name, Range(0, k), <<>>)>>]

ClassicalRegister(size, name) == [name |-> name, size |-> size]

\* circuit.library.PhaseEstimation(num_evaluation_qubits, unitary): the
\* evaluation register first, then the register the unitary acts on.
LibraryPhaseEstimation(num_evaluation_qubits, unitary) ==
    [num_qubits |-> num_evaluation_qubits + unitary.num_qubits,
     cregs |-> <<>>,
     data |-> <<Instruction("QPE", Range(0, num_evaluation_qubits + unitary.num_qubits), <<>>)>>]

\* QuantumCircuit.compose(other, qubits=..., inplace=True, front=True)
Compose(c, other, qubits) ==
    LET moved == [i \in 1..Len(other.data) |->
                    Instruction(other.data[i].name,
                                [j \in 1..Len(other.data[i].qubits) |->
                                    qubits[other.data[i].qubits[j] + 1]],
                                other.data[i].clbits)]
    IN [c EXCEPT !.data = moved \o @]

\* QuantumCircuit.add_register(creg)
AddRegister(c, creg) == [c EXCEPT !.cregs = Append(@, creg)]

\* QuantumCircuit.barrier(): one barrier over every qubit of the circuit
Barrier(c) == [c EXCEPT !.data = Append(@, Instruction("barrier", Range(0, c.num_qubits), <<>>))]

\* QuantumCircuit.measure(qubits, clbits): one measure per (qubit, clbit) pair
Measure(c, qubits, clbits) ==
    [c EXCEPT !.data = @ \o [i \in 1..Len(qubits) |->
                                Instruction("measure", <<qubits[i]>>, <<clbits[i]>>)]]

(***************************************************************************)
(* PhaseEstimation.__init__                                                *)
(***************************************************************************)
\* quantum_instance: "None", or a QuantumInstance by its is_statevector flag
QuantumInstances == {"None", "statevector", "qasm"}

NewPhaseEstimation(num_evaluation_qubits, quantum_instance) ==
    [measurements_added |-> FALSE,
     has_num_evaluation_qubits |-> num_evaluation_qubits # None,
     num_evaluation_qubits |-> IF num_evaluation_qubits # None
                               THEN num_evaluation_qubits[1] ELSE 0,
     quantum_instance |-> quantum_instance]

(***************************************************************************)
(* PhaseEstimation._add_measurement_if_required                            *)
(***************************************************************************)
MeasureQubitsShifted(self, pe_circuit) == Range(1, self.num_evaluation_qubits + 1)

MeasureQubits(self, pe_circuit) == Range(0, self.num_evaluation_qubits)

AddMeasurementIfRequired(self, pe_circuit) ==
    IF self.quantum_instance = "None"
    THEN [err |-> "AttributeError", circuit |-> pe_circuit]
    ELSE IF self.quantum_instance # "statevector"
    THEN LET creg == ClassicalRegister(self.num_evaluation_qubits, "meas")
             c1 == AddRegister(pe_circuit, creg)
             c2 == Barrier(c1)
             c3 == Measure(c2, MeasureQubits(self, pe_circuit),
                           Range(0, self.num_evaluation_qubits))
         IN [err |-> "None", circuit |-> c3]
    ELSE [err |-> "None", circuit |-> pe_circuit]

(***************************************************************************)
(* PhaseEstimation.construct_circuit                                       *)
(***************************************************************************)
ConstructCircuitOutcome(self, unitary, state_preparation, has_state_preparation) ==
    IF ~self.has_num_evaluation_qubits
    THEN [err |-> "AttributeError", circuit |-> NoCircuit,
          pre |-> NoCircuit, post |-> NoCircuit, events |-> <<>>]
    ELSE LET num_evaluation_qubits == self.num_evaluation_qubits
             num_unitary_qubits == unitary.num_qubits
             pe0 == LibraryPhaseEstimation(num_evaluation_qubits, unitary)
             pe1 == IF has_state_preparation
                    THEN Compose(pe0, state_preparation,
                                 Range(num_evaluation_qubits,
                                       num_evaluation_qubits + num_unitary_qubits))
                    ELSE pe0
             am == AddMeasurementIfRequired(self, pe1)
         IN [err |-> am.err,
             circuit |-> IF am.err = "None" THEN am.circuit ELSE NoCircuit,
             pre |-> pe1, post |-> am.circuit,
             events |-> <<"construct_circuit", "_add_measurement_if_required">>]

(***************************************************************************)
(* PhaseEstimation.estimate, lines 216-226: the exactly-one-of check and   *)
(* the choice of the circuit to run.  unitary, state_preparation and       *)
(* pe_circuit are "None" or the name of a circuit object held by the       *)
(* caller; h maps the names to the objects.                                *)
(***************************************************************************)
ConfigurationError == "ValueError"

DeriveNumUnitaryQubitsIfMissing(unitary, num_unitary_qubits) ==
    IF num_unitary_qubits = None THEN Some(unitary.num_qubits) ELSE num_unitary_qubits

DeriveNumUnitaryQubits(unitary, num_unitary_qubits) == Some(unitary.num_qubits)

Untouched(h, num_unitary_qubits) ==
    [events |-> <<>>, heap |-> h, circuit |-> NoCircuit,
     pre |-> NoCircuit, post |-> NoCircuit, nuq |-> num_unitary_qubits]

EstimateCircuitLateCheck(self, h, unitary, state_preparation, pe_circuit, num_unitary_qubits) ==
    IF unitary # "None"
    THEN LET cc == ConstructCircuitOutcome(self, h[unitary],
                       IF state_preparation # "None" THEN h[state_preparation] ELSE NoCircuit,
                       state_preparation # "None")
         IN [err |-> IF cc.err # "None" THEN cc.err
                     ELSE IF pe_circuit # "None" THEN ConfigurationError ELSE "None",
             events |-> cc.events, heap |-> h, circuit |-> cc.circuit,
             pre |-> cc.pre, post |-> cc.post,
             nuq |-> IF cc.err = "None"
                     THEN DeriveNumUnitaryQubits(h[unitary], num_unitary_qubits)
                     ELSE num_unitary_qubits]
    ELSE IF pe_circuit # "None"
    THEN LET am == AddMeasurementIfRequired(self, h[pe_circuit])
         IN [err |-> am.err,
             events |-> <<"_add_measurement_if_required">>,
             heap |-> [h EXCEPT ![pe_circuit] = am.circuit],
             circuit |-> am.circuit,
             pre |-> h[pe_circuit], post |-> am.circuit,
             nuq |-> num_unitary_qubits]
    ELSE [err |-> ConfigurationError] @@ Untouched(h, num_unitary_qubits)

EstimateCircuit(self, h, unitary, state_preparation, pe_circuit, num_unitary_qubits) ==
    IF unitary # "None"
    THEN IF pe_circuit # "None"
         THEN [err |-> ConfigurationError] @@ Untouched(h, num_unitary_qubits)
         ELSE LET cc == ConstructCircuitOutcome(self, h[unitary],
                            IF state_preparation # "None" THEN h[state_preparation]
                            ELSE NoCircuit,
                            state_preparation # "None")
              IN [err |-> cc.err, events |-> cc.events, heap |-> h,
                  circuit |-> cc.circuit, pre |-> cc.pre, post |-> cc.post,
                  nuq |-> IF cc.err = "None"
                          THEN DeriveNumUnitaryQubits(h[unitary], num_unitary_qubits)
                          ELSE num_unitary_qubits]
    ELSE IF pe_circuit # "None"
    THEN LET am == AddMeasurementIfRequired(self, h[pe_circuit])
         IN [err |-> am.err,
             events |-> <<"_add_measurement_if_required">>,
             heap |-> [h EXCEPT ![pe_circuit] = am.circuit],
             circuit |-> am.circuit,
             pre |-> h[pe_circuit], post |-> am.circuit,
             nuq |-> num_unitary_qubits]
    ELSE [err |-> ConfigurationError] @@ Untouched(h, num_unitary_qubits)

(***************************************************************************)
(* PhaseEstimation.estimate, the whole call: the read of                   *)
(* _num_evaluation_qubits, the check and circuit choice, the execution     *)
(* and the post-processing.  The outcome lists what the call did, in       *)
(* order (events), the circuit handed to the executor and the              *)
(* num_unitary_qubits handed to _compute_phases.                           *)
(***************************************************************************)
EstimateOutcome(self, h, unitary, state_preparation, pe_circuit, num_unitary_qubits) ==
    IF ~self.has_num_evaluation_qubits
    THEN [err |-> "AttributeError", executed |-> NoCircuit, ret |-> "None"]
         @@ Untouched(h, num_unitary_qubits)
    ELSE LET ec == EstimateCircuit(self, h, unitary, state_preparation, pe_circuit,
                                   num_unitary_qubits)
         IN IF ec.err # "None"
            THEN [executed |-> NoCircuit, ret |-> "None"] @@ ec
            ELSE IF self.quantum_instance = "statevector" /\ ec.nuq = None
            THEN [ec EXCEPT !.err = "TypeError",
                            !.events = @ \o <<"execute", "_compute_phases">>]
                 @@ [executed |-> ec.circuit, ret |-> "None"]
            ELSE [ec EXCEPT !.events = @ \o <<"execute", "_compute_phases">>]
                 @@ [executed |-> ec.circuit, ret |-> "PhaseEstimationResult"]

(***************************************************************************)
(* Execution results.  A sampling result holds the counts table as the     *)
(* executor listed it (a dict in insertion order: a sequence of            *)
(* key/value entries with distinct keys, a key being a bitstring written   *)
(* as a sequence of 0/1) and the shot count of its first experiment; the   *)
(* executor ran that many shots, each counted once.  A statevector result  *)
(* holds the squared amplitude of every basis state in units of 1/norm.    *)
(***************************************************************************)
RECURSIVE SumValues(_)
SumValues(d) == IF d = <<>> THEN 0 ELSE d[1].value + SumValues(Tail(d))

Bitstrings(w) == [1..w -> {0, 1}]

CountsTables(w) ==
    {t \in UNION {[1..m -> [key : Bitstrings(w), value : 1..MaxCount]] : m \in 1..MaxKeys} :
        \A i, j \in 1..Len(t) : i # j => t[i].key # t[j].key}

SamplingResults(w) ==
    {[shots |-> SumValues(t), counts |-> t, memory_slots |-> w,
      creg_sizes |-> <<ClassicalRegister(w, "meas")>>,
      statevector |-> <<>>, norm |-> 0] : t \in CountsTables(w)}

StatevectorResults(nq) ==
    {[shots |-> 1, counts |-> <<>>, memory_slots |-> 0, creg_sizes |-> <<>>,
      statevector |-> [i \in 1..Pow2(nq) |-> IF i = a \/ i = b THEN 1 ELSE 0],
      norm |-> IF a = b THEN 1 ELSE 2] : a, b \in 1..Pow2(nq)}

\* qiskit.quantum_info.partial_trace(state, qargs).probabilities(): the
\* probability of each value of the qubits left after qargs are traced out
\* (qubit 0 is the least significant bit of a basis index).
Bit(i, q) == (i \div Pow2(q)) % 2

RECURSIVE Project(_, _)
Project(i, kept) ==
    IF kept = <<>> THEN 0 ELSE Bit(i, kept[1]) + 2 * Project(i, Tail(kept))

RECURSIVE KeptQubits(_, _, _)
KeptQubits(q, nq, traced) ==
    IF q >= nq THEN <<>>
    ELSE IF q \in traced THEN KeptQubits(q + 1, nq, traced)
    ELSE <<q>> \o KeptQubits(q + 1, nq, traced)

RECURSIVE LogTwo(_)
LogTwo(n) == IF n <= 1 THEN 0 ELSE 1 + LogTwo(n \div 2)

RECURSIVE SumWhere(_, _, _, _)
SumWhere(vec, kept, e, i) ==
    IF i > Len(vec) THEN 0
    ELSE (IF Project(i - 1, kept) = e THEN vec[i] ELSE 0) + SumWhere(vec, kept, e, i + 1)

PartialTraceProbabilities(circuit_result, qargs) ==
    LET vec == circuit_result.statevector
        kept == KeptQubits(0, LogTwo(Len(vec)), {qargs[j] : j \in 1..Len(qargs)})
    IN [e \in 1..Pow2(Len(kept)) |-> <<SumWhere(vec, kept, e - 1, 1), circuit_result.norm>>]

(***************************************************************************)
(* PhaseEstimation._compute_phases                                         *)
(***************************************************************************)
\* k[::-1]
KeepKey(k) == k

ReverseKey(k) == [i \in 1..Len(k) |-> k[Len(k) + 1 - i]]

\* circuit_result.results[0].shots
NumKeys(circuit_result) == Len(circuit_result.counts)

NumShots(circuit_result) == circuit_result.shots

\* counts[k] / num_shots, kept as the exact fraction <<numerator, denominator>>
Divide(a, b) == <<a, b>>

\* d[k] = v on an insertion-ordered dict: overwrite in place or append
DictSet(d, k, v) ==
    IF \E i \in 1..Len(d) : d[i].key = k
    THEN [i \in 1..Len(d) |-> IF d[i].key = k THEN [key |-> k, value |-> v] ELSE d[i]]
    ELSE Append(d, [key |-> k, value |-> v])

\* {k[::-1]: counts[k] / num_shots for k in counts.keys()}
RECURSIVE ReversedFrequencies(_, _, _)
ReversedFrequencies(counts, num_shots, n) ==
    IF n = 0 THEN <<>>
    ELSE DictSet(ReversedFrequencies(counts, num_shots, n - 1),
                 ReverseKey(counts[n].key), Divide(counts[n].value, num_shots))

\* the bitstring read as an unsigned binary number, most significant bit leftmost
RECURSIVE BinValue(_)
BinValue(k) == IF k = <<>> THEN 0 ELSE 2 * BinValue(SubSeq(k, 1, Len(k) - 1)) + k[Len(k)]

\* _sort_phases: the entries re-inserted in increasing order of their keys
RECURSIVE InsertSorted(_, _)
InsertSorted(d, e) ==
    IF d = <<>> THEN <<e>>
    ELSE IF BinValue(e.key) < BinValue(d[1].key) THEN <<e>> \o d
    ELSE <<d[1]>> \o InsertSorted(Tail(d), e)

RECURSIVE SortPhases(_)
SortPhases(phases) ==
    IF phases = <<>> THEN <<>>
    ELSE InsertSorted(SortPhases(SubSeq(phases, 1, Len(phases) - 1)), phases[Len(phases)])

\* qiskit.result.Counts(phases, memory_slots=..., creg_sizes=...)
Counts(data, memory_slots, creg_sizes) ==
    [kind |-> "Counts", data |-> data, memory_slots |-> memory_slots,
     creg_sizes |-> creg_sizes]

ComputePhasesUnsorted(self, num_unitary_qubits, circuit_result) ==
    IF self.quantum_instance = "statevector"
    THEN [kind |-> "ndarray",
          data |-> PartialTraceProbabilities(circuit_result,
                       Range(self.num_evaluation_qubits,
                             self.num_evaluation_qubits + num_unitary_qubits)),
          memory_slots |-> 0, creg_sizes |-> <<>>]
    ELSE LET num_shots == NumShots(circuit_result)
             counts == circuit_result.counts
             phases == ReversedFrequencies(counts, num_shots, Len(counts))
         IN Counts(phases, circuit_result.memory_slots, circuit_result.creg_sizes)

ComputePhases(self, num_unitary_qubits, circuit_result) ==
    IF self.quantum_instance = "statevector"
    THEN [kind |-> "ndarray",
          data |-> PartialTraceProbabilities(circuit_result,
                       Range(self.num_evaluation_qubits,
                             self.num_evaluation_qubits + num_unitary_qubits)),
          memory_slots |-> 0, creg_sizes |-> <<>>]
    ELSE LET num_shots == NumShots(circuit_result)
             counts == circuit_result.counts
             phases == ReversedFrequencies(counts, num_shots, Len(counts))
             sorted == SortPhases(phases)
         IN Counts(sorted, circuit_result.memory_slots, circuit_result.creg_sizes)

(***************************************************************************)
(* State.  est is the estimator; heap holds the circuit objects the caller *)
(* owns: its unitary U, its state preparation S, its own phase-estimation  *)
(* circuit P and the circuit B last returned by construct_circuit; call    *)
(* records the last public call and what it did; sample is an execution    *)
(* result and the phases computed from it.                                 *)
(***************************************************************************)
NoCall ==
    [op |-> "None", unitary |-> "None", pe_circuit |-> "None", num_unitary_qubits |-> None,
     err |-> "None", events |-> <<>>, pre |-> NoCircuit, post |-> NoCircuit,
     executed |-> NoCircuit, nuq |-> None, ret |-> "None"]

NoResult ==
    [shots |-> 0, counts |-> <<>>, memory_slots |-> 0, creg_sizes |-> <<>>,
     statevector |-> <<>>, norm |-> 0]

NoPhases == [kind |-> "None", data |-> <<>>, memory_slots |-> 0, creg_sizes |-> <<>>]

NoSample ==
    [circuit_result |-> NoResult, num_unitary_qubits |-> 0, phases |-> NoPhases,
     done |-> FALSE]

\* the caller's own phase-estimation circuit: fully formed, not yet measured
CallerPeCircuit(self, unitary) ==
    LibraryPhaseEstimation(IF self.has_num_evaluation_qubits
                           THEN self.num_evaluation_qubits ELSE 1, unitary)

CallerHeap(self, k) ==
    [U |-> OpaqueCircuit("unitary", k),
     S |-> OpaqueCircuit("state_preparation", k),
     P |-> CallerPeCircuit(self, OpaqueCircuit("unitary", k)),
     B |-> NoCircuit]

OptionalEvalQubits == {None} \cup {Some(n) : n \in 1..MaxEvalQubits}

OptionalUnitaryQubits == {None} \cup {Some(n) : n \in 1..MaxUnitaryQubits}

Init ==
    /\ est \in {NewPhaseEstimation(n, qi) : n \in OptionalEvalQubits, qi \in QuantumInstances}
    /\ \E k \in 1..MaxUnitaryQubits : heap = CallerHeap(est, k)
    /\ call = NoCall
    /\ sample = NoSample

ConstructCircuit(state_preparation) ==
    LET cc == ConstructCircuitOutcome(est, heap.U,
                  IF state_preparation # "None" THEN heap[state_preparation] ELSE NoCircuit,
                  state_preparation # "None")
    IN /\ heap' = IF cc.err = "None" THEN [heap EXCEPT !.B = cc.circuit] ELSE heap
       /\ call' = [NoCall EXCEPT !.op = "construct_circuit", !.unitary = "U",
                                 !.err = cc.err, !.events = cc.events,
                                 !.pre = cc.pre, !.post = cc.post]
       /\ UNCHANGED <<est, sample>>

Estimate(unitary, state_preparation, pe_circuit, num_unitary_qubits) ==
    /\ pe_circuit # "None" => /\ heap[pe_circuit] # NoCircuit
                              /\ Len(heap[pe_circuit].cregs) < MaxMeasLayers
    /\ LET eo == EstimateOutcome(est, heap, unitary, state_preparation, pe_circuit,
                                 num_unitary_qubits)
       IN /\ heap' = eo.heap
          /\ call' = [op |-> "estimate", unitary |-> unitary, pe_circuit |-> pe_circuit,
                      num_unitary_qubits |-> num_unitary_qubits,
                      err |-> eo.err, events |-> eo.events, pre |-> eo.pre,
                      post |-> eo.post, executed |-> eo.executed, nuq |-> eo.nuq,
                      ret |-> eo.ret]
    /\ UNCHANGED <<est, sample>>

Next ==
    \/ \E sp \in {"None", "S"} : ConstructCircuit(sp)
    \/ \E u \in {"None", "U"}, sp \in {"None", "S"}, pe \in {"None", "P", "B"},
          nuq \in OptionalUnitaryQubits : Estimate(u, sp, pe, nuq)

Spec == Init /\ [][Next]_vars

(***************************************************************************)
(* _compute_phases on its own: every execution result within the bounds,   *)
(* for an estimator whose evaluation register the result is about.         *)
(***************************************************************************)
InitPhases ==
    /\ est \in {NewPhaseEstimation(Some(n), qi) :
                    n \in 1..MaxEvalQubits, qi \in {"statevector", "qasm"}}
    /\ heap = CallerHeap(est, 1)
    /\ call = NoCall
    /\ \E k \in 1..MaxUnitaryQubits :
         \E r \in IF est.quantum_instance = "statevector"
                  THEN StatevectorResults(est.num_evaluation_qubits + k)
                  ELSE SamplingResults(est.num_evaluation_qubits) :
            sample = [NoSample EXCEPT !.circuit_result = r, !.num_unitary_qubits = k]

ComputePhasesCall ==
    /\ ~sample.done
    /\ sample' = [sample EXCEPT
                    !.phases = ComputePhases(est, sample.num_unitary_qubits,
                                             sample.circuit_result),
                    !.done = TRUE]
    /\ UNCHANGED <<est, heap, call>>

NextPhases == ComputePhasesCall

SpecPhases == InitPhases /\ [][NextPhases]_vars

(***************************************************************************)
(* Properties.                                                             *)
(***************************************************************************)
Did(event) == \E i \in 1..Len(call.events) : call.events[i] = event

ExactlyOne(unitary, pe_circuit) == (unitary # "None") # (pe_circuit # "None")

\* C1: estimate raises the configuration error of the exactly-one check if
\* and only if unitary and pe_circuit are both supplied or both missing.
C1_ConfigurationErrorIffNotExactlyOne ==
    call.op = "estimate" =>
        (call.err = ConfigurationError <=> ~ExactlyOne(call.unitary, call.pe_circuit))

\* C2: a call of estimate that fails the exactly-one check has constructed
\* nothing, appended no measurement and executed nothing, and leaves the
\* estimator and every circuit of the caller as they were.
C2_CheckFailsBeforeAnyWork ==
    [][(call'.op = "estimate" /\ call'.err = ConfigurationError) =>
          /\ call'.events = <<>>
          /\ call'.executed = NoCircuit
          /\ heap' = heap
          /\ est' = est]_vars

C2_Witness ==
    /\ call.op = "estimate"
    /\ call.err = ConfigurationError
    /\ call.unitary # "None"
    /\ call.pe_circuit # "None"

\* C3: on the sampling path the returned distribution has one entry per
\* observed key, keyed by that key written backwards and holding its count
\* divided by the shot count; no other key appears.  The table listing 00
\* and 10 with equal counts gives 00 -> 1/2, 01 -> 1/2.
C3_ReversedKeysWithFrequencies ==
    (sample.done /\ est.quantum_instance = "qasm") =>
        LET t == sample.circuit_result.counts
            d == sample.phases.data
            Mirrors(a, b) == /\ Len(a) = Len(b)
                             /\ \A i \in 1..Len(a) : b[i] = a[Len(a) + 1 - i]
        IN /\ Len(d) = Len(t)
           /\ \A j \in 1..Len(t) : \E i \in 1..Len(d) :
                 /\ Mirrors(t[j].key, d[i].key)
                 /\ d[i].value[2] > 0
                 /\ d[i].value[1] * sample.circuit_result.shots = t[j].value * d[i].value[2]
           /\ \A i \in 1..Len(d) : \E j \in 1..Len(t) : Mirrors(t[j].key, d[i].key)
           /\ \A i, j \in 1..Len(d) : i # j => d[i].key # d[j].key
           /\ (/\ Len(t) = 2
               /\ t[1].key = <<0, 0>>
               /\ t[2].key = <<1, 0>>
               /\ t[1].value = t[2].value)
              => /\ d[1].key = <<0, 0>> /\ 2 * d[1].value[1] = d[1].value[2]
                 /\ d[2].key = <<0, 1>> /\ 2 * d[2].value[1] = d[2].value[2]

C3_Witness ==
    /\ sample.done
    /\ est.quantum_instance = "qasm"
    /\ Len(sample.circuit_result.counts) = 2
    /\ sample.circuit_result.counts[1].key = <<0, 0>>
    /\ sample.circuit_result.counts[2].key = <<1, 0>>
    /\ sample.circuit_result.counts[1].value = sample.circuit_result.counts[2].value
    /\ sample.phases.kind = "Counts"

\* C4: on the sampling path the keys of the returned Counts iterate in
\* non-decreasing numeric order, whatever order the executor listed them in.
C4_KeysInNumericOrder ==
    (sample.done /\ est.quantum_instance = "qasm") =>
        LET d == sample.phases.data
        IN \A i, j \in 1..Len(d) : i < j => BinValue(d[i].key) <= BinValue(d[j].key)

C4_Witness ==
    /\ sample.done
    /\ est.quantum_instance = "qasm"
    /\ sample.phases.kind = "Counts"
    /\ Len(sample.circuit_result.counts) = 2
    /\ sample.circuit_result.counts[1].key = <<0, 1>>
    /\ sample.circuit_result.counts[2].key = <<1, 0>>
    /\ sample.phases.data[1].key = <<0, 1>>

\* C5: on the sampling path, with a positive shot count, the frequencies of
\* the returned distribution sum to 1.
RECURSIVE SumNumerators(_)
SumNumerators(d) == IF d = <<>> THEN 0 ELSE d[1].value[1] + SumNumerators(Tail(d))

C5_FrequenciesSumToOne ==
    (sample.done /\ est.quantum_instance = "qasm" /\ sample.circuit_result.shots > 0) =>
        LET d == sample.phases.data
        IN /\ d # <<>>
           /\ \A i \in 1..Len(d) : d[i].value[2] = d[1].value[2] /\ d[i].value[2] > 0
           /\ SumNumerators(d) = d[1].value[2]

C5_Witness ==
    /\ sample.done
    /\ est.quantum_instance = "qasm"
    /\ sample.phases.kind = "Counts"
    /\ Len(sample.circuit_result.counts) = 2
    /\ sample.circuit_result.counts[1].value # sample.circuit_result.counts[2].value
    /\ sample.circuit_result.shots > 2

\* C6: the num_unitary_qubits handed to _compute_phases is the unitary's
\* qubit count when unitary is supplied, and the caller's value as passed
\* when pe_circuit is supplied.
C6_NumUnitaryQubitsHanded ==
    (call.op = "estimate" /\ Did("_compute_phases")) =>
        IF call.unitary # "None"
        THEN call.nuq = Some(heap[call.unitary].num_qubits)
        ELSE call.nuq = call.num_unitary_qubits

C6_Witness ==
    /\ call.op = "estimate"
    /\ Did("_compute_phases")
    /\ call.unitary = "U"
    /\ call.num_unitary_qubits # None
    /\ call.num_unitary_qubits # Some(heap.U.num_qubits)

\* C7: wherever _add_measurement_if_required runs (construct_circuit, the
\* pe_circuit branch of estimate), a sampling executor makes it append one
\* register of the evaluation width, then one barrier after every earlier
\* instruction, then one measure of each evaluation qubit 0..n-1 and of no
\* other qubit; any other executor leaves the circuit as it was.
C7_MeasurementOnlyWhenSampling ==
    Did("_add_measurement_if_required") =>
        LET pre == call.pre
            post == call.post
            n == est.num_evaluation_qubits
            m == Len(pre.data)
        IN IF est.quantum_instance = "qasm"
           THEN /\ post.num_qubits = pre.num_qubits
                /\ post.cregs = Append(pre.cregs, [name |-> "meas", size |-> n])
                /\ Len(post.data) = m + 1 + n
                /\ SubSeq(post.data, 1, m) = pre.data
                /\ post.data[m + 1].name = "barrier"
                /\ \A i \in 1..n :
                      /\ post.data[m + 1 + i].name = "measure"
                      /\ post.data[m + 1 + i].qubits = <<i - 1>>
                      /\ post.data[m + 1 + i].clbits = <<i - 1>>
           ELSE post = pre

C7_Witness ==
    /\ call.op = "estimate"
    /\ call.pe_circuit = "P"
    /\ call.err = "None"
    /\ est.quantum_instance = "qasm"
    /\ call.post # call.pre
    /\ heap.B # NoCircuit

\* C8: no call of estimate changes a circuit of the caller: the unitary, the
\* state preparation and the caller's phase-estimation circuit stay as the
\* caller made them.
C8_CallerCircuitsUnchanged ==
    /\ heap.U = OpaqueCircuit("unitary", heap.U.num_qubits)
    /\ heap.S = OpaqueCircuit("state_preparation", heap.U.num_qubits)
    /\ heap.P = CallerPeCircuit(est, heap.U)

\* C9: construct_circuit never raises.
C9_ConstructCircuitNeverRaises ==
    call.op = "construct_circuit" => call.err = "None"

\* C10: with a sampling executor every circuit handed to the executor
\* carries exactly one measurement register, one barrier and one measure of
\* each evaluation qubit.
C10_ExecutedCircuitMeasuredOnce ==
    (est.quantum_instance = "qasm" /\ Did("execute")) =>
        LET c == call.executed
        IN /\ Len(c.cregs) = 1
           /\ Cardinality({i \in 1..Len(c.data) : c.data[i].name = "barrier"}) = 1
           /\ Cardinality({i \in 1..Len(c.data) : c.data[i].name = "measure"})
                 = est.num_evaluation_qubits

====
